---- MODULE Spec2Model ----
(***************************************************************************)
(* Model of the client portal: the onboarding route gate                   *)
(* (components/OnboardingProtectedRoute.tsx) and the conversation view     *)
(* (pages/ClientPortal.tsx with components/MessageInput.tsx).              *)
(*                                                                         *)
(* SpecGate     : the gate component, driven by the auth context and the   *)
(*                router.                                                  *)
(* SpecMessages : the messages tab: draft, send-message mutation, message  *)
(*                query and realtime channel.                              *)
(* SpecFiles    : the files tab: upload handler and file query.            *)
(* SpecPortal   : the whole conversation view, both tabs interleaved.      *)
(*                                                                         *)
(* The auth context, the message service and the file service are modelled *)
(* by their contract; queries and mutations follow @tanstack/react-query   *)
(* (no retry of mutations; invalidateQueries cancels and replaces a        *)
(* running refetch, but joins a running first fetch).                      *)
(***************************************************************************)
EXTENDS Integers, Sequences, FiniteSets, TLC

VARIABLES
    \* ---- auth context (useAuth) and backend profile ----
    user,                 \* a user is present
    loading,              \* session still settling
    onboardingCompleted,  \* AuthContext's onboarding status
    profileCompleted,     \* backend: profiles.onboarding_completed
    lookup,               \* "idle" | "inflight": checkOnboardingStatus request
    lookupFailed,         \* the last finished lookup failed
    \* ---- OnboardingProtectedRoute instance ----
    gateMounted,          \* the current route is wrapped by the gate
    checking,             \* useState(true)
    waiters,              \* check() continuations of this instance awaiting the lookup
    effectPending,        \* the check effect is scheduled (mount or dependency change)
    requireOnboarding,    \* prop
    pathname,             \* location.pathname
    locFrom,              \* location.state.from ("none" when absent)
    signEvents,           \* number of sign-in / sign-out events so far
    \* ---- ClientPortal ----
    draft,                \* MessageInput: message
    mutations,            \* mutation cache of sendMessageMutation, oldest first
    serverMessages,       \* backend: client_messages rows of this client
    pendingEvents,        \* postgres_changes events not yet delivered to the channel
    msgQuery,             \* query ['client-messages', clientId]
    msgOrphans,           \* cancelled message requests still running on the network
    uploads,              \* handleFileUpload calls, oldest first
    serverFiles,          \* backend: ids of the file records of this client
    fileQuery,            \* query ['client-files', clientId]
    toast,                \* title of the last toast shown ("none" at start)
    \* ---- ClientPortal: realtime subscription ----
    mounted,              \* the conversation view is mounted
    clientId,             \* useState("client-id-1")
    channels,             \* every channel created so far, oldest first
    held,                 \* the channel the current effect run holds (0: none)
    \* ---- Onboarding page and the router's history ----
    pageEffectPending,    \* the page's status effect is due to run
    pageLookups,          \* the page's own profile lookups in flight
    pageStale,            \* those of them sent before the session last changed
    submitting,           \* an onSubmit call is in flight
    chain                 \* paths entered since the visitor last chose one

gateVars == <<user, loading, onboardingCompleted, profileCompleted, lookup, lookupFailed,
              gateMounted, checking, waiters, effectPending, requireOnboarding,
              pathname, locFrom, signEvents>>

portalVars == <<draft, mutations, serverMessages, pendingEvents, msgQuery, msgOrphans,
                uploads, serverFiles, fileQuery, toast>>

viewVars == <<mounted, clientId, channels, held>>

pageVars == <<pageEffectPending, pageLookups, pageStale, submitting, chain>>

vars == <<gateVars, portalVars, viewVars, pageVars>>

(***************************************************************************)
(* Bounds                                                                  *)
(***************************************************************************)
MaxSignEvents == 2
MaxDraftLen   == 2
MaxMessages   == 2
MaxUploads    == 2
MaxChannels   == 4
MaxPageLookups == 2
MaxChain      == 4

(***************************************************************************)
(* Routing surface                                                         *)
(***************************************************************************)
AuthPath       == "/auth"
OnboardingPath == "/onboarding"
HomePath       == "/"
KanbanPath     == "/kanban"

\* Paths at which the gate component is exercised.
GatedPaths == {HomePath, KanbanPath, OnboardingPath}

(***************************************************************************)
(* OnboardingProtectedRoute: what one render returns                       *)
(***************************************************************************)
Loader   == [kind |-> "Loading",  to |-> "none", from |-> "none"]
Children == [kind |-> "Children", to |-> "none", from |-> "none"]
NavigateTo(to, from) == [kind |-> "Navigate", to |-> to, from |-> from]

\* Faulty variant: the onboarding rule is evaluated before the user rule.
RouteOnboardingBeforeUser ==
    IF loading \/ checking THEN Loader
    ELSE IF requireOnboarding /\ ~onboardingCompleted /\ pathname # OnboardingPath
         THEN NavigateTo(OnboardingPath, pathname)
    ELSE IF ~user THEN NavigateTo(AuthPath, pathname)
    ELSE IF pathname = OnboardingPath /\ onboardingCompleted
         THEN NavigateTo(HomePath, "none")
    ELSE Children

\* Faulty variant: the gate decides without waiting for its own onboarding check.
RouteIgnoresChecking ==
    IF loading THEN Loader
    ELSE IF ~user THEN NavigateTo(AuthPath, pathname)
    ELSE IF requireOnboarding /\ ~onboardingCompleted /\ pathname # OnboardingPath
         THEN NavigateTo(OnboardingPath, pathname)
    ELSE IF pathname = OnboardingPath /\ onboardingCompleted
         THEN NavigateTo(HomePath, "none")
    ELSE Children

\* Faulty variant: no guard against redirecting the onboarding page onto itself.
RouteNoLoopGuard ==
    IF loading \/ checking THEN Loader
    ELSE IF ~user THEN NavigateTo(AuthPath, pathname)
    ELSE IF requireOnboarding /\ ~onboardingCompleted
         THEN NavigateTo(OnboardingPath, pathname)
    ELSE IF pathname = OnboardingPath /\ onboardingCompleted
         THEN NavigateTo(HomePath, "none")
    ELSE Children

\* Faulty variant: a completed user is left on the onboarding page.
RouteNoHomeRedirect ==
    IF loading \/ checking THEN Loader
    ELSE IF ~user THEN NavigateTo(AuthPath, pathname)
    ELSE IF requireOnboarding /\ ~onboardingCompleted /\ pathname # OnboardingPath
         THEN NavigateTo(OnboardingPath, pathname)
    ELSE Children

\* Faulty variant: the onboarding redirect ignores the requireOnboarding prop.
RouteIgnoresRequireOnboarding ==
    IF loading \/ checking THEN Loader
    ELSE IF ~user THEN NavigateTo(AuthPath, pathname)
    ELSE IF ~onboardingCompleted /\ pathname # OnboardingPath
         THEN NavigateTo(OnboardingPath, pathname)
    ELSE IF pathname = OnboardingPath /\ onboardingCompleted
         THEN NavigateTo(HomePath, "none")
    ELSE Children

\* Faulty variant: the onboarding redirect fires for completed users instead of incomplete ones.
RouteFailOpen ==
    IF loading \/ checking THEN Loader
    ELSE IF ~user THEN NavigateTo(AuthPath, pathname)
    ELSE IF requireOnboarding /\ onboardingCompleted /\ pathname # OnboardingPath
         THEN NavigateTo(OnboardingPath, pathname)
    ELSE IF pathname = OnboardingPath /\ onboardingCompleted
         THEN NavigateTo(HomePath, "none")
    ELSE Children

OnboardingProtectedRoute ==
    IF loading \/ checking THEN Loader
    ELSE IF ~user THEN NavigateTo(AuthPath, pathname)
    ELSE IF requireOnboarding /\ ~onboardingCompleted /\ pathname # OnboardingPath
         THEN NavigateTo(OnboardingPath, pathname)
    ELSE IF pathname = OnboardingPath /\ onboardingCompleted
         THEN NavigateTo(HomePath, "none")
    ELSE Children

\* What the gate shows; "none" on a route that is not wrapped by it.
Output == IF gateMounted THEN OnboardingProtectedRoute
          ELSE [kind |-> "NoGate", to |-> "none", from |-> "none"]

(***************************************************************************)
(* Initial state: the application starts with the session settling, at a   *)
(* URL whose route is wrapped by the gate; the portal has just mounted.     *)
(***************************************************************************)
\* A query: data is undefined until the first successful fetch; fetch is the
\* request the query currently awaits (read: the backend has produced its
\* answer snap, which is still on its way).
NoFetch(empty)  == [active |-> FALSE, read |-> FALSE, snap |-> empty]
NewFetch(empty) == [active |-> TRUE,  read |-> FALSE, snap |-> empty]

\* useQuery at mount: no data, the first fetch started.
InitQuery(empty) ==
    [defined |-> FALSE, data |-> empty, isInvalidated |-> FALSE, fetch |-> NewFetch(empty)]

InitGate ==
    /\ user = FALSE
    /\ loading = TRUE
    /\ onboardingCompleted = FALSE
    /\ profileCompleted \in BOOLEAN
    /\ lookup = "idle"
    /\ lookupFailed = FALSE
    /\ gateMounted = TRUE
    /\ checking = TRUE
    /\ waiters = 0
    /\ effectPending = TRUE
    /\ requireOnboarding \in BOOLEAN
    /\ pathname \in GatedPaths
    /\ locFrom = "none"
    /\ signEvents = 0

InitPortal ==
    /\ draft = <<>>
    /\ mutations = <<>>
    /\ serverMessages = <<>>
    /\ pendingEvents = 0
    /\ msgQuery = InitQuery(<<>>)
    /\ msgOrphans = 0
    /\ uploads = <<>>
    /\ serverFiles = {}
    /\ fileQuery = InitQuery({})
    /\ toast = "none"

DefaultClient == "client-id-1"
ClientIds     == {DefaultClient, "client-id-2"}

\* supabase.channel(...).on(..., filter client_id=eq.<c>, callback).subscribe():
\* a new channel, joining until the server acknowledges it.
NewChannel(c) == [filter |-> c, status |-> "joining"]

\* The view has mounted and its effect has run once.
InitChannel ==
    /\ mounted = TRUE
    /\ clientId = DefaultClient
    /\ channels = <<NewChannel(DefaultClient)>>
    /\ held = 1

\* The same, the subscription acknowledged.
InitJoined ==
    /\ mounted = TRUE
    /\ clientId = DefaultClient
    /\ channels = <<[filter |-> DefaultClient, status |-> "joined"]>>
    /\ held = 1

\* The Onboarding page is not shown; nothing has been entered but the URL.
InitPage ==
    /\ pageEffectPending = FALSE
    /\ pageLookups = 0
    /\ pageStale = 0
    /\ submitting = FALSE
    /\ chain = <<pathname>>

Init == InitGate /\ InitPortal /\ InitChannel /\ InitPage

(***************************************************************************)
(* Onboarding page under ProtectedRoute: when it is shown                  *)
(***************************************************************************)
\* The route "/onboarding" of App.tsx: ProtectedRoute renders the page once
\* the session has settled with a user.  (A gate mounted on that path is the
\* gate exercised on its own, without the page.)
OnboardingShown == pathname = OnboardingPath /\ ~gateMounted /\ ~loading /\ user

\* The commit after a step: the page's effect is due when the page has just
\* been mounted, or is still shown and one of its dependencies changed.
PageCommit(depsChanged) ==
    pageEffectPending' =
        (/\ pathname' = OnboardingPath /\ ~gateMounted' /\ ~loading' /\ user'
         /\ (~OnboardingShown \/ depsChanged \/ pageEffectPending))

(***************************************************************************)
(* Auth context                                                            *)
(***************************************************************************)
\* The session settles, with or without a user.  user and loading are
\* dependencies of the gate's check effect.
SettleSession(u) ==
    /\ loading
    /\ loading' = FALSE
    /\ user' = u
    /\ effectPending' = gateMounted
    /\ UNCHANGED <<onboardingCompleted, profileCompleted, lookup, lookupFailed,
                   gateMounted, checking, waiters, requireOnboarding, pathname,
                   locFrom, signEvents>>
    /\ UNCHANGED <<portalVars, viewVars>>
    /\ chain' = <<pathname>>
    /\ pageStale' = pageLookups
    /\ UNCHANGED <<pageLookups, submitting>>
    /\ PageCommit(TRUE)

\* A sign-in or sign-out after the session has settled.
SignEvent ==
    /\ ~loading
    /\ signEvents < MaxSignEvents
    /\ signEvents' = signEvents + 1
    /\ user' = ~user
    /\ effectPending' = gateMounted
    /\ UNCHANGED <<loading, onboardingCompleted, profileCompleted, lookup, lookupFailed,
                   gateMounted, checking, waiters, requireOnboarding, pathname, locFrom>>
    /\ UNCHANGED <<portalVars, viewVars>>
    /\ chain' = <<pathname>>
    /\ pageStale' = pageLookups
    /\ UNCHANGED <<pageLookups, submitting>>
    /\ PageCommit(TRUE)

\* checkOnboardingStatus settles: the backend value on success, not completed
\* on failure; it never rejects.  Every check() of the mounted gate that was
\* awaiting it continues with setChecking(false).
LookupSettle(ok) ==
    /\ lookup = "inflight"
    /\ lookup' = "idle"
    /\ onboardingCompleted' = IF ok THEN profileCompleted ELSE FALSE
    /\ lookupFailed' = ~ok
    /\ checking' = IF waiters > 0 THEN FALSE ELSE checking
    /\ waiters' = 0
    /\ UNCHANGED <<user, loading, profileCompleted, gateMounted, effectPending,
                   requireOnboarding, pathname, locFrom, signEvents>>
    /\ UNCHANGED <<portalVars, viewVars, pageVars>>

(***************************************************************************)
(* OnboardingProtectedRoute: the check effect                              *)
(***************************************************************************)
\* Faulty variant: the effect has no branch for an absent user.
RunCheckEffectNoElse ==
    /\ gateMounted
    /\ effectPending
    /\ effectPending' = FALSE
    /\ IF user /\ ~loading
       THEN /\ lookup' = "inflight"
            /\ waiters' = waiters + 1
            /\ UNCHANGED checking
       ELSE UNCHANGED <<lookup, waiters, checking>>
    /\ UNCHANGED <<user, loading, onboardingCompleted, profileCompleted, lookupFailed,
                   gateMounted, requireOnboarding, pathname, locFrom, signEvents>>
    /\ UNCHANGED <<portalVars, viewVars, pageVars>>

\* The effect of lines 20-31, run after the commit that mounted the gate or
\* changed one of its dependencies.
RunCheckEffect ==
    /\ gateMounted
    /\ effectPending
    /\ effectPending' = FALSE
    /\ IF user /\ ~loading
       THEN /\ lookup' = "inflight"
            /\ waiters' = waiters + 1
            /\ UNCHANGED checking
       ELSE IF ~loading
       THEN /\ checking' = FALSE
            /\ UNCHANGED <<lookup, waiters>>
       ELSE UNCHANGED <<lookup, waiters, checking>>
    /\ UNCHANGED <<user, loading, onboardingCompleted, profileCompleted, lookupFailed,
                   gateMounted, requireOnboarding, pathname, locFrom, signEvents>>
    /\ UNCHANGED <<portalVars, viewVars, pageVars>>

(***************************************************************************)
(* Router                                                                  *)
(***************************************************************************)
\* The location changes to path p, whose route renders the gate with prop r.
\* A gate instance that is kept (same element type at the same position)
\* keeps its state; a new one starts with checking = true and runs its effect.
EnterGate(p, r, from, remount) ==
    /\ pathname' = p
    /\ requireOnboarding' = r
    /\ locFrom' = from
    /\ gateMounted' = TRUE
    /\ IF remount
       THEN /\ checking' = TRUE
            /\ waiters' = 0
            /\ effectPending' = TRUE
       ELSE UNCHANGED <<checking, waiters, effectPending>>

\* The location changes to the authentication page, which has no gate.
EnterAuth(from) ==
    /\ pathname' = AuthPath
    /\ locFrom' = from
    /\ gateMounted' = FALSE
    /\ waiters' = 0
    /\ effectPending' = FALSE
    /\ UNCHANGED <<requireOnboarding, checking>>

\* The user follows a link or types a URL.
Navigate(p, r, remount) ==
    /\ remount \/ gateMounted
    /\ IF p = AuthPath THEN EnterAuth("none") ELSE EnterGate(p, r, "none", remount)
    /\ UNCHANGED <<user, loading, onboardingCompleted, profileCompleted, lookup,
                   lookupFailed, signEvents>>
    /\ UNCHANGED <<portalVars, viewVars, pageVars>>

\* The <Navigate to=... state={{from}} replace /> returned by the gate takes effect.
FollowRedirect(r, remount) ==
    /\ Output.kind = "Navigate"
    /\ IF Output.to = AuthPath
       THEN EnterAuth(Output.from)
       ELSE EnterGate(Output.to, r, Output.from, remount)
    /\ UNCHANGED <<user, loading, onboardingCompleted, profileCompleted, lookup,
                   lookupFailed, signEvents>>
    /\ UNCHANGED <<portalVars, viewVars, pageVars>>

NextGate ==
    \/ \E u \in BOOLEAN : SettleSession(u)
    \/ SignEvent
    \/ \E ok \in BOOLEAN : LookupSettle(ok)
    \/ RunCheckEffect
    \/ \E p \in GatedPaths \cup {AuthPath}, r \in BOOLEAN, m \in BOOLEAN : Navigate(p, r, m)
    \/ \E r \in BOOLEAN, m \in BOOLEAN : FollowRedirect(r, m)

SpecGate == Init /\ [][NextGate]_vars

(***************************************************************************)
(* Properties of the gate (SpecGate)                                       *)
(***************************************************************************)
\* The gate has left its loading state: the session is settled and the gate's
\* own check has finished.
Settled == gateMounted /\ ~loading /\ ~checking

\* C1: in every settled gate state with the user absent the gate returns a
\* redirect to "/auth" carrying the requested location, whatever the values of
\* requireOnboarding, onboardingCompleted and the path; no later rule fires.
C1_AbsentUserRedirectsToAuth ==
    (Settled /\ ~user) => Output = NavigateTo(AuthPath, pathname)

\* Absent user although the status still reads completed (after a sign-out),
\* on the onboarding path of a route that does not require onboarding.
C1_Witness ==
    /\ Settled /\ ~user /\ onboardingCompleted
    /\ ~requireOnboarding /\ pathname = OnboardingPath
    /\ Output = NavigateTo(AuthPath, OnboardingPath)

\* C2: while the session is settling or the gate's onboarding check has not
\* finished, the gate returns the loading indicator: no redirect, no children.
C2_NoDecisionWhileLoadingOrChecking ==
    (gateMounted /\ (loading \/ checking)) => Output = Loader

\* Session settled with a user, the gate's check still awaiting the lookup.
C2_Witness ==
    /\ gateMounted /\ ~loading /\ checking /\ user
    /\ lookup = "inflight" /\ waiters > 0
    /\ Output = Loader

\* C3: settled, user present, requireOnboarding and onboarding not completed:
\* on "/onboarding" the gate renders its children (in every reachable state, so
\* however often it is re-evaluated), on any other path it redirects to
\* "/onboarding" carrying the requested location.
C3_IncompleteUserGoesToOnboarding ==
    (Settled /\ user /\ requireOnboarding /\ ~onboardingCompleted) =>
        Output = IF pathname = OnboardingPath
                 THEN Children
                 ELSE NavigateTo(OnboardingPath, pathname)

\* The redirect from "/kanban" has been followed: the gate renders the
\* onboarding page, the location carrying the path first requested.
C3_Witness ==
    /\ Settled /\ user /\ requireOnboarding /\ ~onboardingCompleted
    /\ pathname = OnboardingPath /\ locFrom = KanbanPath
    /\ Output = Children

\* C4: settled, user present, onboarding completed: "/onboarding" redirects to
\* "/", any other path renders the children.
C4_CompletedUser ==
    (Settled /\ user /\ onboardingCompleted) =>
        Output = IF pathname = OnboardingPath
                 THEN NavigateTo(HomePath, "none")
                 ELSE Children

C4_Witness ==
    /\ Settled /\ user /\ onboardingCompleted /\ requireOnboarding
    /\ pathname = OnboardingPath
    /\ Output = NavigateTo(HomePath, "none")

\* C5 as stated: settled, user present, requireOnboarding = false: the gate
\* renders its children on every path and for every onboarding status.
C5_Original ==
    (Settled /\ user /\ ~requireOnboarding) => Output = Children

\* C5 amended: settled, user present, requireOnboarding = false: the redirect
\* to onboarding is skipped, the redirect to home is not; the gate renders its
\* children except on "/onboarding" with onboarding completed, where it
\* redirects to "/".
C5_OptionalOnboardingSkipsOnboardingRedirectOnly ==
    (Settled /\ user /\ ~requireOnboarding) =>
        Output = IF pathname = OnboardingPath /\ onboardingCompleted
                 THEN NavigateTo(HomePath, "none")
                 ELSE Children

\* An incomplete user on "/kanban" sees the children of a route that does not
\* require onboarding.
C5_Witness ==
    /\ Settled /\ user /\ ~requireOnboarding /\ ~onboardingCompleted
    /\ pathname = KanbanPath
    /\ Output = Children

\* C6: the gate is fail-closed on a failed onboarding lookup: its render is
\* one of the four outcomes (it does not throw), after a failed lookup the
\* status reads not completed, the children of a requireOnboarding route off
\* "/onboarding" are rendered only with a user present and onboarding
\* completed, and with a failed lookup such a route redirects to "/onboarding".
C6_FailClosed ==
    gateMounted =>
        /\ Output.kind \in {"Loading", "Navigate", "Children"}
        /\ lookupFailed => ~onboardingCompleted
        /\ (Output = Children /\ requireOnboarding /\ pathname # OnboardingPath)
               => (user /\ onboardingCompleted)
        /\ (Settled /\ user /\ lookupFailed /\ requireOnboarding
                /\ pathname # OnboardingPath)
               => Output = NavigateTo(OnboardingPath, pathname)

\* The backend says completed, the lookup failed: the gate sends the user to
\* onboarding instead of showing "/kanban".
C6_Witness ==
    /\ Settled /\ user /\ lookupFailed /\ profileCompleted
    /\ requireOnboarding /\ pathname = KanbanPath
    /\ Output = NavigateTo(OnboardingPath, KanbanPath)

(***************************************************************************)
(* MessageInput                                                            *)
(***************************************************************************)
Space == " "
Chars == {Space, "a"}

\* The values the textarea can hold.
Drafts == UNION {[1..n -> Chars] : n \in 0..MaxDraftLen}

RECURSIVE TrimStart(_)
TrimStart(s) == IF s # <<>> /\ Head(s) = Space THEN TrimStart(Tail(s)) ELSE s

RECURSIVE TrimEnd(_)
TrimEnd(s) ==
    IF s # <<>> /\ s[Len(s)] = Space THEN TrimEnd(SubSeq(s, 1, Len(s) - 1)) ELSE s

\* String.prototype.trim
Trim(s) == TrimEnd(TrimStart(s))

(***************************************************************************)
(* Queries (useQuery / queryClient.invalidateQueries)                      *)
(***************************************************************************)
\* The list a view renders: the query's data, [] while undefined.
Displayed(q, empty) == IF q.defined THEN q.data ELSE empty

\* Refetch of a mounted query with cancelRefetch (the default): a running
\* fetch is cancelled (its answer will be dropped) and replaced when the query
\* already has data; a running first fetch is kept and the refetch joins it.
Refetch(q, empty) ==
    IF q.fetch.active /\ ~q.defined THEN q
    ELSE [q EXCEPT !.fetch = NewFetch(empty)]

\* Requests that Refetch(q) cancels: the query stops awaiting them, but the
\* queryFn takes no abort signal, so they run on to their end.
Cancelled(q) == IF q.fetch.active /\ q.defined THEN 1 ELSE 0

\* queryClient.invalidateQueries on the key of q.
InvalidateQuery(q, empty) == Refetch([q EXCEPT !.isInvalidated = TRUE], empty)

\* The backend answers the running request.
QueryRead(q, value) == [q EXCEPT !.fetch.read = TRUE, !.fetch.snap = value]

\* The answer arrives: data replaced, invalidation cleared, fetch idle.
QuerySuccess(q, empty) ==
    [defined |-> TRUE, data |-> q.fetch.snap, isInvalidated |-> FALSE,
     fetch |-> NoFetch(empty)]

\* The request fails for good: data and invalidation are kept.
QueryError(q, empty) == [q EXCEPT !.fetch = NoFetch(empty)]

msgVars  == <<draft, mutations, serverMessages, pendingEvents, msgQuery, msgOrphans>>
fileVars == <<uploads, serverFiles, fileQuery>>

(***************************************************************************)
(* ClientPortal: messages                                                  *)
(***************************************************************************)
\* Faulty variant: the pending state never reaches the input's disabled prop.
IsPendingNeverDisables == FALSE

\* sendMessageMutation.isPending: the state of the latest mutation.
IsPending ==
    Len(mutations) > 0 /\ mutations[Len(mutations)].status = "pending"

RemoteCount == Cardinality({k \in 1..Len(serverMessages) : serverMessages[k].mid = 0})

\* Messages this run may still create.
Budget == Len(mutations) + RemoteCount < MaxMessages

\* handleChange; the textarea is disabled while the mutation is pending.
HandleChange(v) ==
    /\ ~IsPending
    /\ draft' = v
    /\ UNCHANGED <<mutations, serverMessages, pendingEvents, msgQuery, toast>>
    /\ UNCHANGED msgOrphans
    /\ UNCHANGED fileVars
    /\ UNCHANGED <<gateVars, viewVars, pageVars>>

\* sendMessageMutation.mutate(content): a new mutation, pending, its request sent.
Mutate(content) ==
    Append(mutations, [content |-> content, status |-> "pending",
                       stage |-> "request", attempts |-> 1])

\* Faulty variant: the message is appended to the cached list when it is submitted.
HandleSendOptimistic ==
    /\ ~IsPending
    /\ Budget \/ Trim(draft) = <<>>
    /\ IF Trim(draft) # <<>>
       THEN /\ mutations' = Mutate(Trim(draft))
            /\ draft' = <<>>
            /\ msgQuery' = [msgQuery EXCEPT
                   !.defined = TRUE,
                   !.data = Append(Displayed(msgQuery, <<>>),
                                   [id |-> 0, content |-> Trim(draft),
                                    mid |-> Len(mutations) + 1])]
       ELSE UNCHANGED <<mutations, draft, msgQuery>>
    /\ UNCHANGED <<serverMessages, pendingEvents, toast>>
    /\ UNCHANGED msgOrphans
    /\ UNCHANGED fileVars
    /\ UNCHANGED <<gateVars, viewVars, pageVars>>

\* handleSend, by the send button or by Enter; both are disabled while the
\* mutation is pending.  An empty trimmed draft is a no-op.
HandleSend ==
    /\ ~IsPending
    /\ Budget \/ Trim(draft) = <<>>
    /\ IF Trim(draft) # <<>>
       THEN /\ mutations' = Mutate(Trim(draft))
            /\ draft' = <<>>
       ELSE UNCHANGED <<mutations, draft>>
    /\ UNCHANGED <<serverMessages, pendingEvents, msgQuery, toast>>
    /\ UNCHANGED msgOrphans
    /\ UNCHANGED fileVars
    /\ UNCHANGED <<gateVars, viewVars, pageVars>>

\* A row is inserted into client_messages; the backend emits a change event.
InsertMessage(content, mid) ==
    /\ serverMessages' = Append(serverMessages,
           [id |-> Len(serverMessages) + 1, content |-> content, mid |-> mid])
    /\ pendingEvents' = pendingEvents + 1

\* sendMessage reaches the backend, which stores the message.
ServerInsert(i) ==
    /\ i \in 1..Len(mutations)
    /\ mutations[i].status = "pending" /\ mutations[i].stage = "request"
    /\ InsertMessage(mutations[i].content, i)
    /\ mutations' = [mutations EXCEPT ![i].stage = "inserted"]
    /\ UNCHANGED <<draft, msgQuery, toast>>
    /\ UNCHANGED msgOrphans
    /\ UNCHANGED fileVars
    /\ UNCHANGED <<gateVars, viewVars, pageVars>>

\* sendMessage resolves; onSuccess invalidates the message key and toasts.
SendSucceeded(i) ==
    /\ i \in 1..Len(mutations)
    /\ mutations[i].status = "pending" /\ mutations[i].stage = "inserted"
    /\ mutations' = [mutations EXCEPT ![i].status = "success"]
    /\ msgQuery' = InvalidateQuery(msgQuery, <<>>)
    /\ msgOrphans' = msgOrphans + Cancelled(msgQuery)
    /\ toast' = "Message sent"
    /\ UNCHANGED <<draft, serverMessages, pendingEvents>>
    /\ UNCHANGED fileVars
    /\ UNCHANGED <<gateVars, viewVars, pageVars>>

\* Faulty variant: the failed request is sent again.
SendFailedRetries(i) ==
    /\ i \in 1..Len(mutations)
    /\ mutations[i].status = "pending" /\ mutations[i].stage = "request"
    /\ mutations' = IF mutations[i].attempts < 2
                    THEN [mutations EXCEPT ![i].attempts = 2]
                    ELSE [mutations EXCEPT ![i].status = "error"]
    /\ toast' = IF mutations[i].attempts < 2 THEN toast ELSE "Error"
    /\ UNCHANGED <<draft, serverMessages, pendingEvents, msgQuery>>
    /\ UNCHANGED msgOrphans
    /\ UNCHANGED fileVars
    /\ UNCHANGED <<gateVars, viewVars, pageVars>>

\* sendMessage rejects, nothing was stored; onError toasts.  The mutation is
\* not retried.
SendFailed(i) ==
    /\ i \in 1..Len(mutations)
    /\ mutations[i].status = "pending" /\ mutations[i].stage = "request"
    /\ mutations' = [mutations EXCEPT ![i].status = "error"]
    /\ toast' = "Error"
    /\ UNCHANGED <<draft, serverMessages, pendingEvents, msgQuery>>
    /\ UNCHANGED msgOrphans
    /\ UNCHANGED fileVars
    /\ UNCHANGED <<gateVars, viewVars, pageVars>>

\* The accountant writes a message to this client.
RemoteMessage ==
    /\ Budget
    /\ InsertMessage(<<"a">>, 0)
    /\ UNCHANGED <<draft, mutations, msgQuery, toast>>
    /\ UNCHANGED msgOrphans
    /\ UNCHANGED fileVars
    /\ UNCHANGED <<gateVars, viewVars, pageVars>>

\* A channel is live from its creation until removeChannel is called on it.
Live(i) == channels[i].status \in {"joining", "joined"}

\* The view's channel is acknowledged and filters on the current client.
Subscribed ==
    /\ held # 0
    /\ channels[held].status = "joined"
    /\ channels[held].filter = clientId

\* The channel callback: any change event invalidates the message key.
DeliverEvent ==
    /\ pendingEvents > 0
    /\ Subscribed
    /\ pendingEvents' = pendingEvents - 1
    /\ msgQuery' = InvalidateQuery(msgQuery, <<>>)
    /\ msgOrphans' = msgOrphans + Cancelled(msgQuery)
    /\ UNCHANGED <<draft, mutations, serverMessages, toast>>
    /\ UNCHANGED fileVars
    /\ UNCHANGED <<gateVars, viewVars, pageVars>>

\* getMessagesForClient: the backend answers with the rows it holds.
MsgServerRead ==
    /\ msgQuery.fetch.active /\ ~msgQuery.fetch.read
    /\ msgQuery' = QueryRead(msgQuery, serverMessages)
    /\ UNCHANGED <<draft, mutations, serverMessages, pendingEvents, toast>>
    /\ UNCHANGED msgOrphans
    /\ UNCHANGED fileVars
    /\ UNCHANGED <<gateVars, viewVars, pageVars>>

MsgFetchSuccess ==
    /\ msgQuery.fetch.active /\ msgQuery.fetch.read
    /\ msgQuery' = QuerySuccess(msgQuery, <<>>)
    /\ UNCHANGED <<draft, mutations, serverMessages, pendingEvents, toast>>
    /\ UNCHANGED msgOrphans
    /\ UNCHANGED fileVars
    /\ UNCHANGED <<gateVars, viewVars, pageVars>>

MsgFetchError ==
    /\ msgQuery.fetch.active
    /\ msgQuery' = QueryError(msgQuery, <<>>)
    /\ UNCHANGED <<draft, mutations, serverMessages, pendingEvents, toast>>
    /\ UNCHANGED msgOrphans
    /\ UNCHANGED fileVars
    /\ UNCHANGED <<gateVars, viewVars, pageVars>>

\* A cancelled request ends; nothing awaits its answer.
MsgOrphanDone ==
    /\ msgOrphans > 0
    /\ msgOrphans' = msgOrphans - 1
    /\ UNCHANGED <<draft, mutations, serverMessages, pendingEvents, msgQuery, toast>>
    /\ UNCHANGED fileVars
    /\ UNCHANGED <<gateVars, viewVars, pageVars>>

(***************************************************************************)
(* ClientPortal: files                                                     *)
(***************************************************************************)
\* handleFileUpload(file): uploadFile is called; nothing else changes until
\* it settles.
HandleFileUpload ==
    /\ Len(uploads) < MaxUploads
    /\ uploads' = Append(uploads, [status |-> "pending", stored |-> FALSE,
                                   error |-> "none"])
    /\ UNCHANGED <<serverFiles, fileQuery, toast>>
    /\ UNCHANGED msgVars
    /\ UNCHANGED <<gateVars, viewVars, pageVars>>

\* uploadFile reaches the backend, which stores the file and its record.
ServerStore(i) ==
    /\ i \in 1..Len(uploads)
    /\ uploads[i].status = "pending" /\ ~uploads[i].stored
    /\ uploads' = [uploads EXCEPT ![i].stored = TRUE]
    /\ serverFiles' = serverFiles \cup {i}
    /\ UNCHANGED <<fileQuery, toast>>
    /\ UNCHANGED msgVars
    /\ UNCHANGED <<gateVars, viewVars, pageVars>>

\* uploadFile resolves with the record: the file key is invalidated.
UploadResolved(i) ==
    /\ i \in 1..Len(uploads)
    /\ uploads[i].status = "pending" /\ uploads[i].stored
    /\ uploads' = [uploads EXCEPT ![i].status = "uploaded"]
    /\ fileQuery' = InvalidateQuery(fileQuery, {})
    /\ toast' = "File uploaded"
    /\ UNCHANGED serverFiles
    /\ UNCHANGED msgVars
    /\ UNCHANGED <<gateVars, viewVars, pageVars>>

\* Faulty variant: the catch block invalidates the file key as the success path does.
UploadFailedInvalidates(i, how) ==
    /\ i \in 1..Len(uploads)
    /\ uploads[i].status = "pending" /\ ~uploads[i].stored
    /\ uploads' = [uploads EXCEPT ![i].status = "failed", ![i].error = how]
    /\ fileQuery' = InvalidateQuery(fileQuery, {})
    /\ toast' = "Upload failed"
    /\ UNCHANGED serverFiles
    /\ UNCHANGED msgVars
    /\ UNCHANGED <<gateVars, viewVars, pageVars>>

\* uploadFile rejects, or resolves without a record (the handler throws):
\* the catch block toasts and the handler returns.
UploadFailed(i, how) ==
    /\ i \in 1..Len(uploads)
    /\ uploads[i].status = "pending" /\ ~uploads[i].stored
    /\ uploads' = [uploads EXCEPT ![i].status = "failed", ![i].error = how]
    /\ toast' = "Upload failed"
    /\ UNCHANGED <<serverFiles, fileQuery>>
    /\ UNCHANGED msgVars
    /\ UNCHANGED <<gateVars, viewVars, pageVars>>

\* fileService.getAllFiles filtered by clientId.
FileServerRead ==
    /\ fileQuery.fetch.active /\ ~fileQuery.fetch.read
    /\ fileQuery' = QueryRead(fileQuery, serverFiles)
    /\ UNCHANGED <<uploads, serverFiles, toast>>
    /\ UNCHANGED msgVars
    /\ UNCHANGED <<gateVars, viewVars, pageVars>>

FileFetchSuccess ==
    /\ fileQuery.fetch.active /\ fileQuery.fetch.read
    /\ fileQuery' = QuerySuccess(fileQuery, {})
    /\ UNCHANGED <<uploads, serverFiles, toast>>
    /\ UNCHANGED msgVars
    /\ UNCHANGED <<gateVars, viewVars, pageVars>>

FileFetchError ==
    /\ fileQuery.fetch.active
    /\ fileQuery' = QueryError(fileQuery, {})
    /\ UNCHANGED <<uploads, serverFiles, toast>>
    /\ UNCHANGED msgVars
    /\ UNCHANGED <<gateVars, viewVars, pageVars>>

NextMessages ==
    \/ \E v \in Drafts : HandleChange(v)
    \/ HandleSend
    \/ \E i \in 1..MaxMessages : ServerInsert(i)
    \/ \E i \in 1..MaxMessages : SendSucceeded(i)
    \/ \E i \in 1..MaxMessages : SendFailed(i)
    \/ RemoteMessage
    \/ DeliverEvent
    \/ MsgServerRead
    \/ MsgFetchSuccess
    \/ MsgFetchError
    \/ MsgOrphanDone

NextFiles ==
    \/ HandleFileUpload
    \/ \E i \in 1..MaxUploads : ServerStore(i)
    \/ \E i \in 1..MaxUploads : UploadResolved(i)
    \/ \E i \in 1..MaxUploads, how \in {"rejected", "null"} : UploadFailed(i, how)
    \/ FileServerRead
    \/ FileFetchSuccess
    \/ FileFetchError

\* The conversation view is mounted on its own; the gate's state plays no part.
InitView ==
    /\ InitGate
    /\ ~profileCompleted /\ requireOnboarding /\ pathname = HomePath
    /\ InitPortal
    /\ InitJoined
    /\ InitPage

\* The messages tab, the files tab, and the whole view.
SpecMessages == InitView /\ [][NextMessages]_vars
SpecFiles    == InitView /\ [][NextFiles]_vars
SpecPortal   == InitView /\ [][NextMessages \/ NextFiles]_vars

(***************************************************************************)
(* Properties of the conversation view                                     *)
(***************************************************************************)
\* What MessageList and FileList are given.
DisplayedMessages == Displayed(msgQuery, <<>>)
DisplayedFiles    == Displayed(fileQuery, {})

\* How often the message of mutation i occurs in the displayed list.
ShownCount(i) ==
    Cardinality({k \in 1..Len(DisplayedMessages) : DisplayedMessages[k].mid = i})

\* Nothing is left that would still change the message list: no fetch running,
\* no invalidation unserved, no change event undelivered.
MsgQuiet ==
    /\ ~msgQuery.fetch.active
    /\ ~msgQuery.isInvalidated
    /\ pendingEvents = 0

\* C7: once a send-message submission has succeeded the mutation is no longer
\* pending, and when the invalidation of ['client-messages', clientId] has
\* been served by a re-fetch the displayed list contains the new message
\* exactly once (and never more than once).
C7_SentMessageShownOnce ==
    \A i \in 1..Len(mutations) :
        mutations[i].status = "success" =>
            /\ (i = Len(mutations) => ~IsPending)
            /\ ShownCount(i) <= 1
            /\ MsgQuiet => ShownCount(i) = 1

C9_FailedUploadLeavesFileCache ==
    /\ [](\A j \in 1..Len(uploads) :
             (uploads[j].status = "failed" \/ ~uploads[j].stored) =>
                 /\ j \notin DisplayedFiles
                 /\ j \notin fileQuery.fetch.snap
                 /\ j \notin serverFiles)
    /\ [][\A j \in 1..Len(uploads) :
             (uploads[j].status = "pending" /\ uploads'[j].status = "failed") =>
                 /\ fileQuery' = fileQuery
                 /\ serverFiles' = serverFiles
                 /\ toast' = "Upload failed"]_vars

\* One upload returned no record and failed, another succeeded and is listed
\* alone after the re-fetch.
C9_Witness ==
    /\ Len(uploads) = 2
    /\ uploads[1].status = "failed" /\ uploads[1].error = "null"
    /\ uploads[2].status = "uploaded"
    /\ fileQuery.defined /\ ~fileQuery.fetch.active /\ fileQuery.data = {2}

\* C10: a send-message mutation is created pending by an explicit submit with
\* the trimmed draft, is sent once, leaves "pending" only for "success" or
\* "error" and never leaves those; the failing step shows the "Error" toast,
\* ends the pending state and leaves the message query and the backend rows
\* untouched; a failed mutation never has a backend row.
C10_SendLifecycle ==
    /\ [](\A i \in 1..Len(mutations) :
             /\ mutations[i].attempts = 1
             /\ Cardinality({k \in 1..Len(serverMessages) :
                                 serverMessages[k].mid = i}) <= 1
             /\ mutations[i].status = "error" =>
                    \A k \in 1..Len(serverMessages) : serverMessages[k].mid # i)
    /\ [][/\ Len(mutations') >= Len(mutations)
          /\ \A i \in 1..Len(mutations) :
                 /\ mutations'[i].content = mutations[i].content
                 /\ mutations'[i].status # mutations[i].status =>
                        /\ mutations[i].status = "pending"
                        /\ mutations'[i].status \in {"success", "error"}
                 /\ (mutations[i].status = "pending" /\ mutations'[i].status = "error") =>
                        /\ toast' = "Error"
                        /\ msgQuery' = msgQuery
                        /\ serverMessages' = serverMessages
                        /\ pendingEvents' = pendingEvents
                        /\ ~IsPending'
          /\ Len(mutations') > Len(mutations) =>
                 /\ Len(mutations') = Len(mutations) + 1
                 /\ Trim(draft) # <<>>
                 /\ mutations'[Len(mutations')].content = Trim(draft)
                 /\ mutations'[Len(mutations')].status = "pending"]_vars

\* A send failed; the user typed and submitted again, and that one succeeded.
C10_Witness ==
    /\ Len(mutations) = 2
    /\ mutations[1].status = "error" /\ toast = "Message sent"
    /\ mutations[2].status = "success"
    /\ Len(serverMessages) = 1 /\ serverMessages[1].mid = 2

(***************************************************************************)
(* ClientPortal: the realtime subscription effect                          *)
(***************************************************************************)
\* supabase.removeChannel(channel): the channel leaves; no-op once removed.
RemoveChannel(chs, i) ==
    IF i # 0 /\ chs[i].status \in {"joining", "joined"}
    THEN [chs EXCEPT ![i].status = "leaving"]
    ELSE chs

\* The effect body: a channel for client c is created, subscribed and held.
Subscribe(chs, c) == Append(chs, NewChannel(c))

\* The view mounts: clientId starts at its default and the effect runs.
Mount ==
    /\ ~mounted
    /\ Len(channels) < MaxChannels
    /\ mounted' = TRUE
    /\ clientId' = DefaultClient
    /\ channels' = Subscribe(channels, DefaultClient)
    /\ held' = Len(channels) + 1
    /\ UNCHANGED <<gateVars, portalVars, pageVars>>

\* Faulty variant: the effect returns no cleanup.
UnmountLeaks ==
    /\ mounted
    /\ mounted' = FALSE
    /\ held' = 0
    /\ UNCHANGED <<clientId, channels>>
    /\ UNCHANGED <<gateVars, portalVars, pageVars>>

\* The view unmounts: the effect's cleanup removes the channel it holds.
Unmount ==
    /\ mounted
    /\ mounted' = FALSE
    /\ channels' = RemoveChannel(channels, held)
    /\ held' = 0
    /\ UNCHANGED clientId
    /\ UNCHANGED <<gateVars, portalVars, pageVars>>

\* setClientId(c) (a dependency of the effect changes): the cleanup of the
\* previous run removes its channel, then the effect runs for the new client.
\* The page declares the setter and never calls it.
SetClientId(c) ==
    /\ mounted
    /\ c # clientId
    /\ Len(channels) < MaxChannels
    /\ clientId' = c
    /\ channels' = Subscribe(RemoveChannel(channels, held), c)
    /\ held' = Len(channels) + 1
    /\ UNCHANGED mounted
    /\ UNCHANGED <<gateVars, portalVars, pageVars>>

\* The server acknowledges a subscription.
ChannelJoined(i) ==
    /\ i \in 1..Len(channels)
    /\ channels[i].status = "joining"
    /\ channels' = [channels EXCEPT ![i].status = "joined"]
    /\ UNCHANGED <<mounted, clientId, held>>
    /\ UNCHANGED <<gateVars, portalVars, pageVars>>

\* A removed channel has left.
ChannelClosed(i) ==
    /\ i \in 1..Len(channels)
    /\ channels[i].status = "leaving"
    /\ channels' = [channels EXCEPT ![i].status = "closed"]
    /\ UNCHANGED <<mounted, clientId, held>>
    /\ UNCHANGED <<gateVars, portalVars, pageVars>>

NextChannel ==
    \/ Mount
    \/ Unmount
    \/ \E c \in ClientIds : SetClientId(c)
    \/ \E i \in 1..MaxChannels : ChannelJoined(i)
    \/ \E i \in 1..MaxChannels : ChannelClosed(i)

\* The view on its own, just mounted.
InitSubscription ==
    /\ InitGate
    /\ ~profileCompleted /\ requireOnboarding /\ pathname = HomePath
    /\ InitPortal
    /\ InitChannel
    /\ InitPage

SpecChannel == InitSubscription /\ [][NextChannel]_vars

LiveChannels == {i \in 1..Len(channels) : Live(i)}

\* C11: after any sequence of mount, clientId change and unmount the view
\* holds exactly one live subscription while mounted, filtered on its current
\* client, and none once unmounted: every other channel ever created has been
\* removed.
C11_OneSubscriptionPerView ==
    /\ mounted => (/\ held \in 1..Len(channels)
                   /\ LiveChannels = {held}
                   /\ channels[held].filter = clientId)
    /\ ~mounted => (held = 0 /\ LiveChannels = {})

\* Mounted, switched to another client, unmounted: three channels were
\* created, for both clients, and none is live.
C11_Witness ==
    /\ ~mounted
    /\ Len(channels) = 3
    /\ LiveChannels = {}
    /\ \E i \in 1..3 : channels[i].filter # DefaultClient

(***************************************************************************)
(* ClientPortal: invalidation during a running message fetch               *)
(***************************************************************************)

\* Message requests on the network: the one the query awaits and the ones it
\* cancelled but that still run.
MsgRequests == (IF msgQuery.fetch.active THEN 1 ELSE 0) + msgOrphans

\* C12 (first half): an invalidation that arrives while a message fetch is in
\* flight launches no concurrent duplicate request: at most one request for
\* ['client-messages', clientId] is on the network at any time.
C12_NoDuplicateRequest == MsgRequests <= 1

\* C12 (second half): the invalidation is not dropped: when nothing is left to
\* run, the cache holds the rows as of the latest invalidating event.
C12_InvalidationNotDropped == MsgQuiet /\ msgQuery.defined => DisplayedMessages = serverMessages

\* C12: an invalidation during an in-flight message re-fetch launches no
\* concurrent duplicate request and is not dropped, so that the cache ends up
\* with the data as of the latest invalidating event.
C12_CoalescedInvalidation == C12_NoDuplicateRequest /\ C12_InvalidationNotDropped

(***************************************************************************)
(* ClientPortal and MessageInput: one send at a time                       *)
(***************************************************************************)

\* Send-message requests in flight.
InFlight == {i \in 1..Len(mutations) : mutations[i].status = "pending"}

\* C17: at most one send-message request is in flight at any time; a send is
\* started only while none is in flight and only with the non-empty trimmed
\* draft, and an empty or whitespace-only draft starts nothing.
C17_OneSendAtATime ==
    /\ [](Cardinality(InFlight) <= 1)
    /\ [](\A i \in 1..Len(mutations) :
             mutations[i].content # <<>> /\ Trim(mutations[i].content) = mutations[i].content)
    /\ [][Len(mutations') > Len(mutations) =>
             /\ InFlight = {}
             /\ Trim(draft) # <<>>
             /\ mutations' = Append(mutations, mutations'[Len(mutations')])
             /\ mutations'[Len(mutations')].content = Trim(draft)
             /\ draft' = <<>>]_vars
    /\ [][Trim(draft) = <<>> => Len(mutations') = Len(mutations)]_vars

\* A second send is pending after the first has settled, and the draft typed
\* before it is gone.
C17_Witness ==
    /\ Len(mutations) = 2
    /\ InFlight = {2}
    /\ draft = <<>>

(***************************************************************************)
(* OnboardingProtectedRoute: the loading state ends                        *)
(***************************************************************************)
\* React runs a pending effect after the commit, and a request that was sent
\* is answered or fails: neither stays possible forever without happening.
FairGate ==
    /\ SpecGate
    /\ WF_vars(RunCheckEffect)
    /\ WF_vars(\E ok \in BOOLEAN : LookupSettle(ok))

\* A step that puts a new gate instance in place of the current one.
NewGateInstance == gateMounted' /\ checking' /\ effectPending' /\ ~effectPending

\* The gate shows the loading indicator although the session has settled.
AwaitingCheck == gateMounted /\ ~loading /\ checking

\* C15: once the session has settled the gate leaves its loading state:
\* checking becomes false (or the gate is left), whether the user is absent,
\* the onboarding check resolves or it fails; only a visitor who keeps
\* replacing the gate by a new instance forever keeps seeing the indicator.
C15_GateLeavesLoading ==
    \/ []<><<NewGateInstance>>_vars
    \/ (AwaitingCheck ~> (~checking \/ ~gateMounted))

\* The gate has a decision after a failed onboarding check.
C15_Witness ==
    /\ Settled /\ user /\ lookupFailed /\ lookup = "idle"
    /\ Output = NavigateTo(OnboardingPath, pathname)

(***************************************************************************)
(* App: the routes, the Onboarding page and the redirects between them     *)
(***************************************************************************)
\* The routes of App.tsx that are followed here: "/auth" renders the Auth
\* page, "/onboarding" the Onboarding page inside ProtectedRoute, "/" and
\* "/kanban" their pages inside the gate (requireOnboarding by default).
AppPaths == {AuthPath, OnboardingPath, HomePath, KanbanPath}

\* The location changes to "/onboarding"; the gate, if one was mounted, goes.
EnterOnboarding(from) ==
    /\ pathname' = OnboardingPath
    /\ locFrom' = from
    /\ gateMounted' = FALSE
    /\ waiters' = 0
    /\ effectPending' = FALSE
    /\ UNCHANGED <<requireOnboarding, checking>>

\* The location changes to p.  Between two gated routes React keeps the gate
\* instance; coming from "/auth" or "/onboarding" it mounts a new one.
Go(p, from) ==
    IF p = AuthPath THEN EnterAuth(from)
    ELSE IF p = OnboardingPath THEN EnterOnboarding(from)
    ELSE EnterGate(p, TRUE, from, ~gateMounted)

\* The visitor follows a link or moves in the history.
AppNavigate(p) ==
    /\ p # pathname
    /\ Go(p, "none")
    /\ chain' = <<p>>
    /\ UNCHANGED <<user, loading, onboardingCompleted, profileCompleted, lookup,
                   lookupFailed, signEvents>>
    /\ UNCHANGED <<pageLookups, pageStale, submitting>>
    /\ PageCommit(FALSE)
    /\ UNCHANGED <<portalVars, viewVars>>

\* A redirect issued by the application takes effect.
Redirect(p, from) ==
    /\ Len(chain) < MaxChain
    /\ Go(p, from)
    /\ chain' = Append(chain, p)
    /\ UNCHANGED <<user, loading, onboardingCompleted, profileCompleted, lookup,
                   lookupFailed, signEvents>>
    /\ PageCommit(FALSE)

\* The <Navigate> returned by the gate.
GateRedirect ==
    /\ gateMounted
    /\ Output.kind = "Navigate"
    /\ Redirect(Output.to, Output.from)
    /\ UNCHANGED <<pageLookups, pageStale, submitting>>
    /\ UNCHANGED <<portalVars, viewVars>>

\* ProtectedRoute: a settled session without a user is sent to "/auth".
ProtectedRedirect ==
    /\ pathname = OnboardingPath /\ ~gateMounted
    /\ ~loading /\ ~user
    /\ Redirect(AuthPath, OnboardingPath)
    /\ UNCHANGED <<pageLookups, pageStale, submitting>>
    /\ UNCHANGED <<portalVars, viewVars>>

\* The page's effect: with the session settled and a user present, the local
\* checkOnboardingStatus sends its own query on profiles.
PageRunEffect ==
    /\ OnboardingShown
    /\ pageEffectPending
    /\ pageLookups < MaxPageLookups
    /\ pageEffectPending' = FALSE
    /\ pageLookups' = pageLookups + 1
    /\ UNCHANGED <<pageStale, submitting, chain>>
    /\ UNCHANGED <<gateVars, portalVars, viewVars>>

\* One of the page's lookups is answered.  A completed profile makes the
\* closure call navigate("/"), whether or not the page is still shown; an
\* error is logged and nothing else happens.  A lookup sent before the
\* session last changed (old) does not continue the redirects of this one.
PageLookupSettle(ok, old) ==
    /\ IF old THEN pageStale > 0 ELSE pageLookups > pageStale
    /\ pageLookups' = pageLookups - 1
    /\ pageStale' = IF old THEN pageStale - 1 ELSE pageStale
    /\ IF ok /\ profileCompleted /\ pathname # HomePath
       THEN IF old
            THEN /\ Go(HomePath, "none")
                 /\ chain' = <<HomePath>>
                 /\ UNCHANGED <<user, loading, onboardingCompleted, profileCompleted,
                                lookup, lookupFailed, signEvents>>
                 /\ PageCommit(FALSE)
            ELSE Redirect(HomePath, "none")
       ELSE UNCHANGED <<gateVars, pageEffectPending, chain>>
    /\ UNCHANGED submitting
    /\ UNCHANGED <<portalVars, viewVars>>

\* The form is submitted with valid values; the button is disabled meanwhile.
Submit ==
    /\ OnboardingShown
    /\ ~submitting
    /\ submitting' = TRUE
    /\ UNCHANGED <<pageEffectPending, pageLookups, pageStale, chain>>
    /\ UNCHANGED <<gateVars, portalVars, viewVars>>

\* onSubmit ends.  Success: the profile is marked completed, a toast is
\* shown, the page's local flag is set and navigate("/") is called; the auth
\* context is not told.  Failure: a toast.
OnSubmitSettle(ok) ==
    /\ submitting
    /\ submitting' = FALSE
    /\ IF ok
       THEN /\ profileCompleted' = TRUE
            /\ toast' = "Onboarding complete!"
            /\ IF pathname # HomePath
               THEN /\ Go(HomePath, "none")
                    /\ PageCommit(FALSE)
               ELSE UNCHANGED <<pathname, locFrom, gateMounted, waiters, effectPending,
                                requireOnboarding, checking, pageEffectPending>>
            /\ chain' = <<HomePath>>
       ELSE /\ toast' = "Error during onboarding"
            /\ UNCHANGED <<profileCompleted, pathname, locFrom, gateMounted, waiters,
                           effectPending, requireOnboarding, checking,
                           pageEffectPending, chain>>
    /\ UNCHANGED <<user, loading, onboardingCompleted, lookup, lookupFailed, signEvents>>
    /\ UNCHANGED <<pageLookups, pageStale>>
    /\ UNCHANGED <<draft, mutations, serverMessages, pendingEvents, msgQuery, msgOrphans,
                   uploads, serverFiles, fileQuery>>
    /\ UNCHANGED viewVars

\* A <Navigate> has been rendered: its navigation happens in the commit of
\* that render, before anything else can.
RedirectDue ==
    \/ gateMounted /\ Output.kind = "Navigate"
    \/ pathname = OnboardingPath /\ ~gateMounted /\ ~loading /\ ~user

NextApp ==
    \/ ~RedirectDue /\ \E u \in BOOLEAN : SettleSession(u)
    \/ ~RedirectDue /\ SignEvent
    \/ ~RedirectDue /\ \E ok \in BOOLEAN : LookupSettle(ok)
    \/ ~RedirectDue /\ RunCheckEffect
    \/ ~RedirectDue /\ \E p \in AppPaths : AppNavigate(p)
    \/ GateRedirect
    \/ ProtectedRedirect
    \/ ~RedirectDue /\ PageRunEffect
    \/ ~RedirectDue /\ \E ok \in BOOLEAN, old \in BOOLEAN : PageLookupSettle(ok, old)
    \/ ~RedirectDue /\ Submit
    \/ ~RedirectDue /\ \E ok \in BOOLEAN : OnSubmitSettle(ok)

\* The application starts at one of its routes, the session settling.
InitApp ==
    /\ user = FALSE
    /\ loading = TRUE
    /\ onboardingCompleted = FALSE
    /\ profileCompleted \in BOOLEAN
    /\ lookup = "idle"
    /\ lookupFailed = FALSE
    /\ pathname \in AppPaths
    /\ gateMounted = (pathname \in {HomePath, KanbanPath})
    /\ checking = TRUE
    /\ waiters = 0
    /\ effectPending = gateMounted
    /\ requireOnboarding = TRUE
    /\ locFrom = "none"
    /\ signEvents = 0
    /\ InitPortal
    /\ InitChannel
    /\ InitPage

SpecApp == InitApp /\ [][NextApp]_vars

\* Profile lookups of the one identity that are in flight: the auth
\* context's and the page's own.
LookupsInFlight == (IF lookup = "inflight" THEN 1 ELSE 0) + pageLookups

\* C13: at no time are two lookups of the onboarding status in flight for the
\* same identity; resolutions requested concurrently share one lookup.
C13_OneLookupInFlight == LookupsInFlight <= 1

\* C14: when the onboarding completion action succeeds, the onboarding status
\* of the auth context reads completed at once.
C14_CompletionPromotesStatus == [][OnSubmitSettle(TRUE) => onboardingCompleted']_vars

\* C16: following the redirects of the gate, of ProtectedRoute and of the
\* Onboarding page never enters a path twice: no cycle of redirects.
C16_NoRedirectCycle ==
    \A i, j \in 1..Len(chain) : chain[i] = chain[j] => i = j

=============================================================================
